---- MODULE Spec2Model ----
(***************************************************************************)
(* A model of client/physmem2profit/physmem2minidump.py: the LSASS dump     *)
(* orchestrator (_dump), the bounded file wait (ensureFileExist), the       *)
(* secure-world page scan (_cg, read_secure_world) and the reconciliation   *)
(* of modules and live address ranges (read_memory_fast).                   *)
(*                                                                          *)
(* Representation.  Python tuples are TLA+ tuples in the same field order.  *)
(* An interval of the `intervals` library (python-intervals 1.x, the        *)
(* package that provides `import intervals` with IntervalDict) is the set   *)
(* of the integer addresses it holds: every interval the program builds is  *)
(* a union of closedopen intervals with integer bounds, for which union,    *)
(* intersection, difference and the merging of touching atomic intervals    *)
(* coincide with the set operations and with maximal runs of consecutive    *)
(* addresses.  A file path is a pair <<base, ext>> as os.path.splitext      *)
(* returns it, a process name is a tuple of one-character strings.          *)
(***************************************************************************)
EXTENDS Integers, Sequences, FiniteSets

VARIABLES
    pc,                 \* position of the program
    status,             \* "running", "exit0", "exit1" or the exception raised
    \* ---- the arguments of dump(label, vmem) and the file system
    vmem,               \* None or the path <<base, ext>> given with --vmem
    fs,                 \* the paths that exist
    opened,             \* the input files opened so far (config.json, image)
    written,            \* the output files written so far
    config,             \* the configuration dictionary
    \* ---- locals of ensureFileExist
    waitPath, ret, x, checks, sleeps, waited,
    \* ---- the capture as the forensics engine presents it
    session,            \* TRUE once session.Session(...) was opened
    procs,              \* rows of pslist: <<name, pid>>
    dlls,               \* dlllist rows of a pid: <<dll_path, base, size>>
    runs,               \* address ranges of a pid: <<start, end>>
    phys_map,           \* rows of phys_map: <<start, end, count>>
    MmPfnDatabase,      \* pfn -> <<ReferenceCount, ShareCount, PteAddress>>
    imageinfo,          \* rows of the imageinfo plugin
    \* ---- locals of _dump
    lsass_pid, credential_guard, build, module_list_arg, minidump,
    \* ---- locals of _cg and read_secure_world
    image_size, pfn, count, secure_world_pages, secure_world,
    \* ---- locals of read_memory_fast
    task, module_list, mem_list, filling, operations, opidx,
    memoryinfo_list, memory64_list

vars == <<pc, status, vmem, fs, opened, written, config,
          waitPath, ret, x, checks, sleeps, waited,
          session, procs, dlls, runs, phys_map, MmPfnDatabase, imageinfo,
          lsass_pid, credential_guard, build, module_list_arg, minidump,
          image_size, pfn, count, secure_world_pages, secure_world,
          task, module_list, mem_list, filling, operations, opidx,
          memoryinfo_list, memory64_list>>

dumpVars == <<vmem, fs, opened, written, config, session, lsass_pid,
              credential_guard, build, module_list_arg, minidump>>
waitVars == <<waitPath, ret, x, checks, sleeps, waited>>
captureVars == <<procs, dlls, runs, phys_map, MmPfnDatabase, imageinfo>>
cgVars == <<image_size, pfn, count, secure_world_pages, secure_world>>
memVars == <<task, module_list, mem_list, filling, operations, opidx,
             memoryinfo_list, memory64_list>>

\* Python's None, for a value that is otherwise a tuple
None == <<>>

\* the positions at which a run has ended
Ended == {"done", "exited", "raised", "interrupted"}

\* dump, lines 320-324: the ways a run leaves dump once _dump is over.  _dump
\* returned (p = "done"), called sys.exit (p = "exited") or raised
\* (p = "raised"), and that outcome s stands; or a KeyboardInterrupt is raised
\* outside the protection of the try statement, in the except clause of lines
\* 323-324 while the outcome passes it, and leaves dump in its place
LeavesDump(p, s) ==
    \/ pc' = p /\ status' = s
    \/ pc' = "interrupted" /\ status' = "KeyboardInterrupt"

(***************************************************************************)
(* Bounds of the model.                                                     *)
(***************************************************************************)
MaxAddr == 4        \* virtual addresses of the model are 0 .. MaxAddr-1
MaxModules == 2     \* modules in a module list
MaxLive == 2        \* runs of an address space
MaxPages == 3       \* page frames of the physical image
MaxProcs == 3       \* rows of a process listing

(***************************************************************************)
(* Python helpers: tuple order and sorted().                                *)
(***************************************************************************)
RECURSIVE TupleLess(_, _)
\* a < b for two tuples of integers (lexicographic, the shorter a prefix first)
TupleLess(a, b) ==
    IF b = <<>> THEN FALSE
    ELSE IF a = <<>> THEN TRUE
    ELSE IF Head(a) # Head(b) THEN Head(a) < Head(b)
    ELSE TupleLess(Tail(a), Tail(b))

RECURSIVE InsertSorted(_, _)
\* e inserted into the sorted sequence s of [key, val] records, after its equals
InsertSorted(e, s) ==
    IF s = <<>> THEN <<e>>
    ELSE IF TupleLess(e.key, Head(s).key) THEN <<e>> \o s
    ELSE <<Head(s)>> \o InsertSorted(e, Tail(s))

RECURSIVE SortKeyed(_)
SortKeyed(s) ==
    IF s = <<>> THEN <<>>
    ELSE InsertSorted(s[Len(s)], SortKeyed(SubSeq(s, 1, Len(s) - 1)))

\* sorted(s) for a list of tuples of integers
sorted(s) ==
    LET k == SortKeyed([i \in 1..Len(s) |-> [key |-> s[i], val |-> s[i]]])
    IN [i \in 1..Len(s) |-> k[i].val]

\* 'mem' < 'pad' in Python's string order
KindRank(kind) == IF kind = "mem" THEN 0 ELSE 1

\* sorted(operations) for tuples (start, end, op)
sortedOperations(ops) ==
    LET k == SortKeyed([i \in 1..Len(ops) |->
                 [key |-> <<ops[i][1], ops[i][2], KindRank(ops[i][3])>>,
                  val |-> ops[i]]])
    IN [i \in 1..Len(ops) |-> k[i].val]

(***************************************************************************)
(* The interval library as read_memory_fast uses it.                        *)
(***************************************************************************)
\* I.inf: greater than every address; -I.inf is written -inf
inf == MaxAddr + 1

IsInf(v) == v = inf \/ v = -inf

\* I.empty()
empty == {}

\* I.closedopen(lower, upper)
closedopen(lower, upper) == {a \in lower..(upper - 1) : TRUE}

\* list(interval): the atomic intervals in ascending order, each with .lower
\* and .upper; the empty interval holds the one atomic interval (+inf, -inf)
AtomicIntervals(interval) ==
    IF interval = empty THEN << <<inf, -inf>> >>
    ELSE sorted(
        LET atoms == {a \in interval \X interval :
                        /\ a[1] <= a[2]
                        /\ \A v \in a[1]..a[2] : v \in interval
                        /\ (a[1] - 1) \notin interval
                        /\ (a[2] + 1) \notin interval}
            RECURSIVE AsSeq(_)
            AsSeq(S) == IF S = {} THEN <<>>
                        ELSE LET e == CHOOSE e \in S : TRUE
                             IN <<(<<e[1], e[2] + 1>>)>> \o AsSeq(S \ {e})
        IN AsSeq(atoms))

\* a d[key] = value that leaves the other labels as they were
IntervalDictSetNoCut(d, key, value) ==
    IF key = empty THEN d
    ELSE [l \in DOMAIN d |-> IF l = value THEN d[l] \cup key ELSE d[l]]

\* d[key] = value on an IntervalDict d (a record label -> interval): the key
\* is taken away from every other label and added to value's
IntervalDictSet(d, key, value) ==
    IF key = empty THEN d
    ELSE [l \in DOMAIN d |-> IF l = value THEN d[l] \cup key ELSE d[l] \ key]

\* d.find(value)
IntervalDictFind(d, value) == d[value]
(***************************************************************************)
(* Process names and the two ways the program looks lsass.exe up.           *)
(***************************************************************************)
UpperCase == <<"A","B","C","D","E","F","G","H","I","J","K","L","M",
               "N","O","P","Q","R","S","T","U","V","W","X","Y","Z">>
LowerCase == <<"a","b","c","d","e","f","g","h","i","j","k","l","m",
               "n","o","p","q","r","s","t","u","v","w","x","y","z">>

\* str.lower() of one character and of a name
LowerChar(c) ==
    IF \E i \in 1..Len(UpperCase) : UpperCase[i] = c
    THEN LowerCase[CHOOSE i \in 1..Len(UpperCase) : UpperCase[i] = c]
    ELSE c

lower(name) == [i \in 1..Len(name) |-> LowerChar(name[i])]

lsass_exe == <<"l","s","a","s","s",".","e","x","e">>
lsaiso_exe == <<"l","s","a","i","s","o",".","e","x","e">>

\* proc_regex.match(name): the pattern compiled case-insensitively, matched
\* at the start of the name, '.' standing for any character
RegexMatch(pattern, name) ==
    /\ Len(name) >= Len(pattern)
    /\ \A i \in 1..Len(pattern) :
          pattern[i] = "." \/ LowerChar(name[i]) = LowerChar(pattern[i])

\* the rows of a listing that satisfy a predicate, in listing order
RECURSIVE RowsMatching(_, _)
RowsMatching(rows, pattern) ==
    IF rows = <<>> THEN <<>>
    ELSE IF RegexMatch(pattern, Head(rows)[1])
         THEN <<Head(rows)>> \o RowsMatching(Tail(rows), pattern)
         ELSE RowsMatching(Tail(rows), pattern)

\* s.plugins.pslist(proc_regex=...).filter_processes()
filter_processes(rows, pattern) == RowsMatching(rows, pattern)

RECURSIVE RowsNamed(_, _)
\* the rows with str(name).lower() == wanted, in listing order
RowsNamed(rows, wanted) ==
    IF rows = <<>> THEN <<>>
    ELSE IF lower(Head(rows)[1]) = wanted
         THEN <<Head(rows)>> \o RowsNamed(Tail(rows), wanted)
         ELSE RowsNamed(Tail(rows), wanted)

(***************************************************************************)
(* read_memory_fast.                                                        *)
(***************************************************************************)
RECURSIVE AvailablePartsContained(_, _, _, _)
\* the loop with a containment test in place of the intersection test
AvailablePartsContained(d, mod_start, size, ml) ==
    IF ml = <<>> THEN d
    ELSE LET start == Head(ml)[1]
             end == Head(ml)[2]
             mem == closedopen(start, end)
             mod == closedopen(mod_start, mod_start + size)
             d1 == IF mem # empty /\ mem \subseteq mod
                   THEN IntervalDictSet(d, mem, "mem")
                   ELSE d
         IN IF start > mod_start + size THEN d1
            ELSE AvailablePartsContained(d1, mod_start, size, Tail(ml))

RECURSIVE AvailablePartsClosed(_, _, _, _)
\* the loop with the live ranges taken as closed intervals [start, end]
AvailablePartsClosed(d, mod_start, size, ml) ==
    IF ml = <<>> THEN d
    ELSE LET start == Head(ml)[1]
             end == Head(ml)[2]
             mem == closedopen(start, end + 1)
             mod == closedopen(mod_start, mod_start + size)
             d1 == IF (mem \cap mod) # empty
                   THEN IntervalDictSet(d, mem, "mem")
                   ELSE d
         IN IF start > mod_start + size THEN d1
            ELSE AvailablePartsClosed(d1, mod_start, size, Tail(ml))

RECURSIVE AvailableParts(_, _, _, _)
\* the loop over mem_list for one module: d after the live ranges that
\* intersect the module were marked 'mem', stopping at the break
AvailableParts(d, mod_start, size, ml) ==
    IF ml = <<>> THEN d
    ELSE LET start == Head(ml)[1]
             end == Head(ml)[2]
             mem == closedopen(start, end)
             mod == closedopen(mod_start, mod_start + size)
             d1 == IF (mem \cap mod) # empty
                   THEN IntervalDictSet(d, mem, "mem")
                   ELSE d
         IN IF start > mod_start + size THEN d1
            ELSE AvailableParts(d1, mod_start, size, Tail(ml))

\* d.find('fill') for one module: the part of it no live range covers
ModuleFill(mod_start, size, ml) ==
    LET mod == closedopen(mod_start, mod_start + size)
        d0 == IntervalDictSet([fill |-> empty, mem |-> empty], mod, "fill")
    IN IntervalDictFind(AvailableParts(d0, mod_start, size, ml), "fill")

RECURSIVE Filling(_, _)
\* filling after the loop over module_list
Filling(mods, ml) ==
    IF mods = <<>> THEN empty
    ELSE Filling(SubSeq(mods, 1, Len(mods) - 1), ml)
            \cup ModuleFill(mods[Len(mods)][2], mods[Len(mods)][3], ml)

\* the operations list before it is sorted: the pads, then the live ranges
Operations(fill, ml) ==
    LET atoms == AtomicIntervals(fill)
    IN [i \in 1..Len(atoms) |-> <<atoms[i][1], atoms[i][2], "pad">>]
       \o [i \in 1..Len(ml) |-> <<ml[i][1], ml[i][2], "mem">>]

\* the live addresses of the task's address space
Mapped(ml) == UNION {closedopen(ml[i][1], ml[i][2]) : i \in 1..Len(ml)}

\* a byte of mapped memory (never zero, to tell it from padding)
MemByte(a) == (a % 255) + 1

\* addr_space.read(start, size): size bytes, zeros where nothing is mapped
AddrSpaceRead(ml, start, size) ==
    [i \in 1..size |-> IF (start + i - 1) \in Mapped(ml)
                       THEN MemByte(start + i - 1) ELSE 0]

\* the region record of one operation
MemoryInfo(start, size) ==
    [BaseAddress |-> start, AllocationBase |-> 0, AllocationProtect |-> 0,
     RegionSize |-> size, Protect |-> 0, State |-> 0, Type |-> 0]

\* lines 72-103: the lookups and the reconciliation
RmfReconcile ==
    /\ pc = "read_memory_fast"
    /\ LET found == filter_processes(procs, lsass_exe)
       IN IF found = <<>>
          THEN \* next() of an exhausted generator
               /\ LeavesDump("raised", "StopIteration")
               /\ UNCHANGED memVars
          ELSE LET ml == sorted(runs[Head(found)[2]])
                   mods == sorted(module_list_arg)
                   fill == Filling(mods, ml)
               IN /\ task' = Head(found)[2]
                  /\ module_list' = mods
                  /\ mem_list' = ml
                  /\ filling' = fill
                  /\ operations' = sortedOperations(Operations(fill, ml))
                  /\ opidx' = 1
                  /\ memoryinfo_list' = <<>>
                  /\ memory64_list' = <<>>
                  /\ pc' = "read_fill"
                  /\ UNCHANGED status
    /\ UNCHANGED <<dumpVars, waitVars, captureVars, cgVars>>

\* lines 108-127: one iteration of the read loop
RmfRead ==
    /\ pc = "read_fill"
    /\ opidx <= Len(operations)
    /\ LET start == operations[opidx][1]
           end == operations[opidx][2]
       IN IF IsInf(start) \/ IsInf(end)
          THEN \* end - start on the bounds of the empty interval
               /\ LeavesDump("raised", "TypeError")
               /\ UNCHANGED <<opidx, memoryinfo_list, memory64_list>>
          ELSE LET size == end - start
               IN /\ memoryinfo_list' =
                        Append(memoryinfo_list, MemoryInfo(start, size))
                  /\ memory64_list' =
                        Append(memory64_list,
                               <<start, size, AddrSpaceRead(mem_list, start, size)>>)
                  /\ opidx' = opidx + 1
                  /\ UNCHANGED <<pc, status>>
    /\ UNCHANGED <<task, module_list, mem_list, filling, operations>>
    /\ UNCHANGED <<dumpVars, waitVars, captureVars, cgVars>>

\* line 129: return memoryinfo_list, memory64_list
RmfReturn ==
    /\ pc = "read_fill"
    /\ opidx > Len(operations)
    /\ pc' = "assemble"
    /\ UNCHANGED <<status, memVars, dumpVars, waitVars, captureVars, cgVars>>

read_memory_fast == RmfReconcile \/ RmfRead \/ RmfReturn

(***************************************************************************)
(* Inputs of the model.                                                     *)
(***************************************************************************)
\* the sequences over S of length at most n
SeqsUpTo(S, n) == UNION {[1..k -> S] : k \in 0..n}

\* a run of an address space: [start, end), not empty
Ranges == {r \in (0..MaxAddr) \X (0..MaxAddr) : r[1] < r[2]}

\* the runs of one address space, as the walk of its page tables yields
\* them: in ascending order, never sharing an address (they may touch)
LiveLists ==
    {ml \in SeqsUpTo(Ranges, MaxLive) :
        \A i \in 1..(Len(ml) - 1) : ml[i][2] <= ml[i + 1][1]}

\* (base, size) of a loaded module
ModuleSpans == {m \in (0..MaxAddr) \X (1..MaxAddr) : m[1] + m[2] <= MaxAddr}

\* module lists (dll_path, base, size): every multiset of spans, listed by
\* base and size; a path is written as its rank in the order of strings, here
\* descending so that sorted() reverses the list
ModuleLists ==
    {[i \in 1..Len(ms) |-> <<Len(ms) - i + 1, ms[i][1], ms[i][2]>>] :
        ms \in {q \in SeqsUpTo(ModuleSpans, MaxModules) :
                    \A i \in 1..(Len(q) - 1) : ~TupleLess(q[i + 1], q[i])}}

\* Minidump(): nothing set yet
Minidump == [secure_world |-> None, systeminfo |-> None, memoryinfo_list |-> None,
             memory64 |-> None, module_list |-> None]

\* the values of the variables a component does not use
DumpIdle ==
    /\ vmem = None /\ fs = {} /\ opened = {} /\ written = {}
    /\ config = [image |-> None]
    /\ session = TRUE /\ lsass_pid = 1 /\ credential_guard = FALSE
    /\ build = 0 /\ minidump = Minidump
WaitIdle ==
    /\ waitPath = None /\ ret = "" /\ x = 0 /\ checks = 0 /\ sleeps = 0
    /\ waited = {}
CgIdle ==
    /\ image_size = 0 /\ pfn = 0 /\ count = 0
    /\ secure_world_pages = <<>> /\ secure_world = <<>>
MemIdle ==
    /\ task = 0 /\ module_list = <<>> /\ mem_list = <<>> /\ filling = empty
    /\ operations = <<>> /\ opidx = 0
    /\ memoryinfo_list = <<>> /\ memory64_list = <<>>

\* dump, lines 320-324: a KeyboardInterrupt ends the run where it stood, with
\* whatever was opened and written so far.  Raised inside the try statement
\* (the call of _dump, line 322) it is caught and dropped and dump returns
\* normally (exit status 0); raised outside of it, at the entry of dump before
\* the try is in force or in the except clause of lines 323-324, it leaves
\* dump uncaught
Interrupt ==
    /\ status = "running"
    /\ pc \notin Ended
    /\ LeavesDump("done", "exit0")
    /\ UNCHANGED <<dumpVars, waitVars, captureVars, cgVars, memVars>>

\* read_memory_fast called on any module list and any address space
InitMem ==
    /\ pc = "read_memory_fast"
    /\ status = "running"
    /\ module_list_arg \in ModuleLists
    /\ procs = << <<lsass_exe, 1>> >>
    /\ runs \in [{1} -> LiveLists]
    /\ dlls = [p \in {1} |-> module_list_arg]
    /\ phys_map = <<>> /\ MmPfnDatabase = <<>> /\ imageinfo = <<>>
    /\ DumpIdle /\ WaitIdle /\ CgIdle /\ MemIdle

NextMem == RmfReconcile \/ RmfRead \/ RmfReturn \/ Interrupt

SpecMem == InitMem /\ [][NextMem]_vars

(***************************************************************************)
(* Properties of read_memory_fast.                                          *)
(***************************************************************************)
\* the addresses of an operation, a module and the live ranges read
OpAddrs(op) == closedopen(op[1], op[2])
ModAddrs(m) == closedopen(m[2], m[2] + m[3])
LiveRuns == runs[task]
LiveAddrs == Mapped(LiveRuns)
ModulesAddrs == UNION {ModAddrs(module_list_arg[i]) : i \in DOMAIN module_list_arg}
Reconciled == pc \in {"read_fill", "assemble"} \/ status = "TypeError"
IsPad(op) == op[3] = "pad"

\* C1: the sorted operation sequence covers exactly union(M) \cup union(L):
\* the operations hold exactly the addresses of the union, no two of them
\* share an address, and they are in ascending order of start.
C1_ExactTiling ==
    Reconciled =>
        /\ UNION {OpAddrs(operations[i]) : i \in DOMAIN operations}
              = ModulesAddrs \cup LiveAddrs
        /\ \A i, j \in DOMAIN operations :
              i # j => OpAddrs(operations[i]) \cap OpAddrs(operations[j]) = {}
        /\ \A i, j \in DOMAIN operations :
              i < j => operations[i][1] <= operations[j][1]

\* a module split by a live range: pad, mem, pad
C1_Witness ==
    /\ pc = "assemble"
    /\ Len(operations) >= 3
    /\ \E i \in DOMAIN operations : IsPad(operations[i])
    /\ \E i \in DOMAIN operations : ~IsPad(operations[i])
    /\ \E i \in DOMAIN module_list_arg :
          /\ ModAddrs(module_list_arg[i]) \cap LiveAddrs # {}
          /\ ~(ModAddrs(module_list_arg[i]) \subseteq LiveAddrs)

\* C2: no pad operation intersects a module that lies within one live range.
C2_ContainedModuleIsRead ==
    Reconciled =>
        \A i \in DOMAIN module_list_arg :
            (\E r \in DOMAIN LiveRuns :
                ModAddrs(module_list_arg[i])
                    \subseteq closedopen(LiveRuns[r][1], LiveRuns[r][2]))
            => \A o \in DOMAIN operations :
                  OpAddrs(operations[o]) \cap ModAddrs(module_list_arg[i]) # {}
                      => operations[o][3] = "mem"

\* a module strictly inside a live range, next to a module with a hole
C2_Witness ==
    /\ pc = "assemble"
    /\ \E i \in DOMAIN module_list_arg : \E r \in DOMAIN LiveRuns :
          /\ ModAddrs(module_list_arg[i])
                \subseteq closedopen(LiveRuns[r][1], LiveRuns[r][2])
          /\ ModAddrs(module_list_arg[i])
                # closedopen(LiveRuns[r][1], LiveRuns[r][2])
    /\ \E o \in DOMAIN operations : IsPad(operations[o])

\* C3: a module that intersects no live range lies within one pad operation,
\* and no other operation holds an address of it; every live range, also one
\* that touches the module, is an operation of its own.
C3_UnmappedModuleIsOnePad ==
    Reconciled =>
        /\ \A i \in DOMAIN module_list_arg :
              ModAddrs(module_list_arg[i]) \cap LiveAddrs = {}
              => /\ \E o \in DOMAIN operations :
                       /\ IsPad(operations[o])
                       /\ ModAddrs(module_list_arg[i]) \subseteq OpAddrs(operations[o])
                 /\ Cardinality({o \in DOMAIN operations :
                       OpAddrs(operations[o]) \cap ModAddrs(module_list_arg[i]) # {}}) = 1
        /\ \A r \in DOMAIN LiveRuns :
              \E o \in DOMAIN operations :
                  operations[o] = <<LiveRuns[r][1], LiveRuns[r][2], "mem">>

\* an unmapped module, a second module overlapping or touching it, and a
\* live range that ends where the module begins
C3_Witness ==
    /\ pc = "assemble"
    /\ \E i, j \in DOMAIN module_list_arg :
          /\ i # j
          /\ ModAddrs(module_list_arg[i]) \cap LiveAddrs = {}
          /\ module_list_arg[j][2] + module_list_arg[j][3] >= module_list_arg[i][2]
          /\ module_list_arg[j][2] < module_list_arg[i][2]
          /\ \E r \in DOMAIN LiveRuns :
                \/ LiveRuns[r][2] = module_list_arg[j][2]
                \/ LiveRuns[r][1] = module_list_arg[i][2] + module_list_arg[i][3]

RECURSIVE SumSeq(_)
SumSeq(s) == IF s = <<>> THEN 0 ELSE Head(s) + SumSeq(Tail(s))

\* C4: every operation gets one region record and one content block with its
\* start and size end-start, unmapped bytes read as zeros, and no error
\* leaves read_memory_fast, so that block sizes and region sizes add up to
\* the same.
C4_EveryOperationRead ==
    /\ pc \in {"read_fill", "assemble", "raised"} => status = "running"
    /\ pc = "assemble" =>
          /\ Len(memoryinfo_list) = Len(operations)
          /\ Len(memory64_list) = Len(operations)
          /\ \A o \in DOMAIN operations :
                /\ memoryinfo_list[o].BaseAddress = operations[o][1]
                /\ memoryinfo_list[o].RegionSize = operations[o][2] - operations[o][1]
                /\ memory64_list[o][1] = operations[o][1]
                /\ memory64_list[o][2] = operations[o][2] - operations[o][1]
                /\ Len(memory64_list[o][3]) = memory64_list[o][2]
                /\ \A k \in DOMAIN memory64_list[o][3] :
                      (operations[o][1] + k - 1) \notin LiveAddrs
                          => memory64_list[o][3][k] = 0
          /\ SumSeq([o \in DOMAIN memory64_list |-> memory64_list[o][2]])
                = SumSeq([o \in DOMAIN memoryinfo_list |-> memoryinfo_list[o].RegionSize])

(***************************************************************************)
(* _cg and read_secure_world.                                               *)
(***************************************************************************)
PAGE_SIZE == 4096
PAGE_BITS == 12

RECURSIVE Pow2(_)
Pow2(n) == IF n = 0 THEN 1 ELSE 2 * Pow2(n - 1)

\* pfn << bits
ShiftLeft(v, bits) == v * Pow2(bits)

\* the files of a run
OutputDir == <<"output", "">>
SecureWorldFile == <<"output/label-date-secure-world", ".raw">>
DumpFile == <<"output/label-date-lsass", ".dmp">>

\* the test of one page frame: a record <<ReferenceCount, ShareCount, PteAddress>>
IsSecureWorldPageLoose(pfn_obj) ==
    pfn_obj[1] = 2 /\ (pfn_obj[2] = 1 \/ pfn_obj[3] = 0)

IsSecureWorldPage(pfn_obj) ==
    pfn_obj[1] = 2 /\ pfn_obj[2] = 1 /\ pfn_obj[3] = 0

\* s.default_address_space.base.read(addr, length): the block of length bytes
\* of the image at addr
PhysRead(addr, length) == <<addr, length>>

\* lines 173-188: the physical layout; image_size is the end of the last row
CgLayout ==
    /\ pc = "cg_layout"
    /\ image_size' = IF phys_map = <<>> THEN 0 ELSE phys_map[Len(phys_map)][2]
    /\ count' = 0
    /\ pfn' = 0
    /\ secure_world_pages' = <<>>
    /\ pc' = "cg_scan"
    /\ UNCHANGED <<status, secure_world, dumpVars, waitVars, captureVars, memVars>>

\* lines 189-197: one page frame of the scan
CgScanPage ==
    /\ pc = "cg_scan"
    /\ pfn < image_size \div PAGE_SIZE
    /\ count' = count + PAGE_SIZE
    /\ secure_world_pages' =
          IF IsSecureWorldPage(MmPfnDatabase[pfn + 1])
          THEN Append(secure_world_pages, ShiftLeft(pfn, PAGE_BITS))
          ELSE secure_world_pages
    /\ pfn' = pfn + 1
    /\ UNCHANGED <<pc, status, image_size, secure_world,
                   dumpVars, waitVars, captureVars, memVars>>

\* lines 199-200 and read_secure_world: the pages read and joined in order
CgReadSecureWorld ==
    /\ pc = "cg_scan"
    /\ pfn >= image_size \div PAGE_SIZE
    /\ secure_world' = [i \in 1..Len(secure_world_pages) |->
                            PhysRead(secure_world_pages[i], PAGE_SIZE)]
    /\ pc' = "cg_open"
    /\ UNCHANGED <<status, image_size, pfn, count, secure_world_pages,
                   dumpVars, waitVars, captureVars, memVars>>

\* lines 202-204: open(filepath, 'wb') creates the empty file in output/; it
\* fails when the directory is missing
CgOpen ==
    /\ pc = "cg_open"
    /\ IF OutputDir \in fs
       THEN /\ fs' = fs \cup {SecureWorldFile}
            /\ pc' = "cg_write"
            /\ UNCHANGED status
       ELSE /\ LeavesDump("raised", "FileNotFoundError")
            /\ UNCHANGED fs
    /\ UNCHANGED <<vmem, opened, written, config, session, lsass_pid,
                   credential_guard, build, module_list_arg, minidump>>
    /\ UNCHANGED <<waitVars, captureVars, cgVars, memVars>>

\* line 205: f.write(secure_world), the file is closed
CgWrite ==
    /\ pc = "cg_write"
    /\ written' = written \cup {SecureWorldFile}
    /\ pc' = "cg_return"
    /\ UNCHANGED <<status, vmem, fs, opened, config, session, lsass_pid,
                   credential_guard, build, module_list_arg, minidump>>
    /\ UNCHANGED <<waitVars, captureVars, cgVars, memVars>>

\* lines 207 and 274-276: _cg returns the blob, the caller hands it to the
\* minidump and leaves the loop
CgReturn ==
    /\ pc = "cg_return"
    /\ minidump' = [minidump EXCEPT !.secure_world = secure_world]
    /\ pc' = "gather"
    /\ UNCHANGED <<status, vmem, fs, opened, written, config, session, lsass_pid,
                   credential_guard, build, module_list_arg>>
    /\ UNCHANGED <<waitVars, captureVars, cgVars, memVars>>

\* the page tables of the model: MmPfnDatabase[pfn + 1] describes frame pfn
PfnRecords == {2, 3} \X {1, 2} \X {0, 8}
PfnTables == [1..MaxPages -> PfnRecords]

\* the sizes of the image: whole pages, or a last page cut short
ImageSizes == {n * PAGE_SIZE + r : n \in 0..MaxPages, r \in {0, PAGE_SIZE - 1}}

\* _cg called on any image
InitCg ==
    /\ pc = "cg_layout"
    /\ status = "running"
    /\ vmem = <<"capture", ".vmem">>
    /\ fs \in {{vmem}, {vmem, OutputDir}}
    /\ opened = {vmem} /\ written = {}
    /\ config = [image |-> vmem]
    /\ session = TRUE /\ lsass_pid = 1 /\ credential_guard = TRUE
    /\ build = 0 /\ minidump = Minidump /\ module_list_arg = <<>>
    /\ procs = << <<lsass_exe, 1>>, <<lsaiso_exe, 2>> >>
    /\ dlls = <<>> /\ runs = <<>> /\ imageinfo = <<>>
    /\ \E size \in ImageSizes :
          phys_map \in {<<>>, << <<0, size, size \div PAGE_SIZE>> >>}
    /\ MmPfnDatabase \in PfnTables
    /\ waitPath = None /\ ret = "" /\ x = 0 /\ checks = 0 /\ sleeps = 0
    /\ waited = {vmem}
    /\ CgIdle /\ MemIdle

NextCg ==
    \/ CgLayout \/ CgScanPage \/ CgReadSecureWorld
    \/ CgOpen \/ CgWrite \/ CgReturn
    \/ Interrupt

SpecCg == InitCg /\ [][NextCg]_vars

\* the frames of the image in ascending order that pass the test of the claim
RECURSIVE MatchingFrames(_, _)
MatchingFrames(n, table) ==
    IF n = 0 THEN <<>>
    ELSE MatchingFrames(n - 1, table) \o
            (IF table[n][1] = 2 /\ table[n][2] = 1 /\ table[n][3] = 0
             THEN <<n - 1>> ELSE <<>>)

Scanned ==
    \/ pc \in {"cg_open", "cg_write", "cg_return", "gather"}
    \/ status = "FileNotFoundError"

\* C5: the scan visits every page frame of the image and returns, in
\* ascending order, exactly the addresses pfn*4096 of the frames with
\* ReferenceCount = 2, ShareCount = 1 and PteAddress = 0; the blob is the
\* sequence of their 4096-byte reads in that order.
C5_SecureWorldScan ==
    Scanned =>
        LET frames == MatchingFrames(image_size \div 4096, MmPfnDatabase)
        IN /\ pfn = image_size \div 4096
           /\ count = pfn * 4096
           /\ secure_world_pages = [i \in 1..Len(frames) |-> frames[i] * 4096]
           /\ \A i \in DOMAIN secure_world_pages : secure_world_pages[i] % 4096 = 0
           /\ secure_world = [i \in 1..Len(frames) |-> <<frames[i] * 4096, 4096>>]
           /\ (frames = <<>> => secure_world = <<>>)

\* two matching frames with a frame between them that matches in two of the
\* three fields only
C5_Witness ==
    /\ pc = "gather"
    /\ Len(secure_world) = 2
    /\ secure_world[1][1] = 0
    /\ secure_world[2][1] = 2 * 4096
    /\ MmPfnDatabase[2][1] = 2 /\ MmPfnDatabase[2][2] = 1 /\ MmPfnDatabase[2][3] # 0

(***************************************************************************)
(* ensureFileExist.                                                         *)
(***************************************************************************)
\* the number of existence checks of one wait
MaxAttempts == 120

CONFIG_FILE == <<"config", ".json">>

\* the image a config.json of the companion names
RemoteImage == <<"remote-capture", ".raw">>

\* `if vmem:` is false for None and for the empty string
Truthy(path) == path # None /\ path # <<"", "">>

\* range(n) with one value too many
rangeInclusive(n) == 0..n

\* range(n)
range(n) == 0..(n - 1)

\* lines 151-154: one os.path.exists(path) of the loop; a failed check goes
\* on to call time.sleep(1)
EnsureCheck ==
    /\ pc = "ensureFileExist"
    /\ x \in range(MaxAttempts)
    /\ checks' = checks + 1
    /\ IF waitPath \in fs
       THEN pc' = "ensure_found" /\ UNCHANGED sleeps
       ELSE pc' = "ensure_sleep" /\ sleeps' = sleeps + 1
    /\ UNCHANGED <<status, waitPath, ret, x, waited>>
    /\ UNCHANGED <<dumpVars, captureVars, cgVars, memVars>>

\* line 154: time.sleep(1) returns, the loop takes the next value of x
EnsureSleep ==
    /\ pc = "ensure_sleep"
    /\ x' = x + 1
    /\ pc' = "ensureFileExist"
    /\ UNCHANGED <<status, waitPath, ret, checks, sleeps, waited>>
    /\ UNCHANGED <<dumpVars, captureVars, cgVars, memVars>>

\* the files a run waits for: the local image, or config.json and the image
\* it names
Awaitable == IF Truthy(vmem) THEN {vmem} ELSE {CONFIG_FILE, RemoteImage}

\* the file systems that fs may have become while the program was blocked in
\* a call: other processes may have created any of the awaited files
LaterFs == {fs \cup S : S \in SUBSET (Awaitable \ fs)}

\* another process (the companion capture) creates one of the awaited files;
\* it runs at its own pace, whatever line this program is at
CompanionWrites ==
    /\ status = "running"
    /\ pc \notin Ended
    /\ \E f \in Awaitable \ fs : fs' = fs \cup {f}
    /\ UNCHANGED <<pc, status, vmem, opened, written, config, session, lsass_pid,
                   credential_guard, build, module_list_arg, minidump>>
    /\ UNCHANGED <<waitVars, captureVars, cgVars, memVars>>

\* lines 155-156: the loop ran out, the else branch raises
EnsureRaise ==
    /\ pc = "ensureFileExist"
    /\ x \notin range(MaxAttempts)
    /\ LeavesDump("raised", "Exception: File does not exist")
    /\ UNCHANGED <<dumpVars, waitVars, captureVars, cgVars, memVars>>

\* the break: ensureFileExist returns to its caller
EnsureReturn ==
    /\ pc = "ensure_found"
    /\ waited' = waited \cup {waitPath}
    /\ pc' = ret
    /\ waitPath' = None /\ ret' = "" /\ x' = 0 /\ checks' = 0 /\ sleeps' = 0
    /\ UNCHANGED <<status, dumpVars, captureVars, cgVars, memVars>>

ensureFileExist ==
    EnsureCheck \/ EnsureSleep \/ CompanionWrites \/ EnsureRaise \/ EnsureReturn

(***************************************************************************)
(* _dump.                                                                   *)
(***************************************************************************)
\* os.path.splitext(path)
splitext(path) == <<path[1], path[2]>>

\* an extension test that lets every file with an extension through
ExtensionRefusedWhenMissing(path) == splitext(path)[2] = ""

\* line 217: image_ext != ".vmem"
ExtensionRefused(path) == splitext(path)[2] # ".vmem"

\* lines 212-226 and 230, then 148-149: the arguments, up to the call of the
\* first wait and its os.system("ls -R /tmp"), during which the awaited files
\* may appear
DumpStart ==
    /\ pc = "dump"
    /\ minidump' = Minidump
    /\ IF Truthy(vmem)
       THEN IF ExtensionRefused(vmem)
            THEN /\ LeavesDump("exited", "exit1")
                 /\ UNCHANGED <<config, waitPath, ret, fs>>
            ELSE /\ config' = [image |-> vmem]
                 /\ waitPath' = vmem
                 /\ ret' = "open_session"
                 /\ pc' = "ensureFileExist"
                 /\ fs' \in LaterFs
                 /\ UNCHANGED status
       ELSE /\ waitPath' = CONFIG_FILE
            /\ ret' = "load_config"
            /\ pc' = "ensureFileExist"
            /\ fs' \in LaterFs
            /\ UNCHANGED <<status, config>>
    /\ x' = 0 /\ checks' = 0 /\ sleeps' = 0
    /\ UNCHANGED <<vmem, opened, written, session, lsass_pid,
                   credential_guard, build, module_list_arg, waited>>
    /\ UNCHANGED <<captureVars, cgVars, memVars>>

\* the configurations the companion may have written
Configs == {[image |-> RemoteImage], [image |-> RemoteImage, build |-> 17763]}

\* lines 227-230, then 148-149: config.json is read, the wait for the image
\* is called and runs its os.system("ls -R /tmp"), during which the image may
\* appear
LoadConfig ==
    /\ pc = "load_config"
    /\ opened' = opened \cup {CONFIG_FILE}
    /\ config' \in Configs
    /\ waitPath' = config'.image
    /\ ret' = "open_session"
    /\ x' = 0 /\ checks' = 0 /\ sleeps' = 0
    /\ pc' = "ensureFileExist"
    /\ fs' \in LaterFs
    /\ UNCHANGED <<status, vmem, written, session, lsass_pid,
                   credential_guard, build, module_list_arg, minidump, waited>>
    /\ UNCHANGED <<captureVars, cgVars, memVars>>

\* the names a process of the capture may have
lsass_upper == <<"L","S","A","S","S",".","E","X","E">>
lsass_like == <<"l","s","a","s","s","_","e","x","e">>
svchost_exe == <<"s","v","c","h","o","s","t",".","e","x","e">>
ProcessNames == {lsass_exe, lsass_upper, lsass_like, lsaiso_exe, svchost_exe}

\* the process listings: the row at position i has pid i
ProcessLists ==
    {[i \in 1..Len(names) |-> <<names[i], i>>] :
        names \in SeqsUpTo(ProcessNames, MaxProcs)}

\* lines 233-243: the session is opened on the image; the model learns the
\* processes of the capture here
OpenSession ==
    /\ pc = "open_session"
    /\ opened' = opened \cup {config.image}
    /\ session' = TRUE
    /\ procs' \in ProcessLists
    /\ pc' = "locate_target"
    /\ UNCHANGED <<status, vmem, fs, written, config, lsass_pid,
                   credential_guard, build, module_list_arg, minidump>>
    /\ UNCHANGED <<dlls, runs, phys_map, MmPfnDatabase, imageinfo>>
    /\ UNCHANGED <<waitVars, cgVars, memVars>>

\* lines 245-256 with the exit of the else branch left out
LocateTargetNoExit ==
    /\ pc = "locate_target"
    /\ LET found == RowsNamed(procs, lsass_exe)
       IN lsass_pid' = IF found = <<>> THEN 0 ELSE Head(found)[2]
    /\ pc' = "detect_isolation"
    /\ UNCHANGED <<status, vmem, fs, opened, written, config, session,
                   credential_guard, build, module_list_arg, minidump>>
    /\ UNCHANGED <<waitVars, captureVars, cgVars, memVars>>

\* lines 245-264: the first process named lsass.exe, or exit status 1
LocateTarget ==
    /\ pc = "locate_target"
    /\ LET found == RowsNamed(procs, lsass_exe)
       IN IF found = <<>>
          THEN /\ LeavesDump("exited", "exit1")
               /\ UNCHANGED lsass_pid
          ELSE /\ lsass_pid' = Head(found)[2]
               /\ pc' = "detect_isolation"
               /\ UNCHANGED status
    /\ UNCHANGED <<vmem, fs, opened, written, config, session,
                   credential_guard, build, module_list_arg, minidump>>
    /\ UNCHANGED <<waitVars, captureVars, cgVars, memVars>>

\* lines 266-277: Credential Guard is on when a process is named lsaiso.exe;
\* _cg runs only with a local image
DetectIsolation ==
    /\ pc = "detect_isolation"
    /\ IF RowsNamed(procs, lsaiso_exe) # <<>>
       THEN /\ credential_guard' = TRUE
            /\ pc' = IF Truthy(vmem) THEN "cg_layout" ELSE "gather"
       ELSE /\ credential_guard' = FALSE
            /\ pc' = "gather"
    /\ UNCHANGED <<status, vmem, fs, opened, written, config, session,
                   lsass_pid, build, module_list_arg, minidump>>
    /\ UNCHANGED <<waitVars, captureVars, cgVars, memVars>>

\* lines 285-288: the first row with key 'NT Build'; its value is
\* <<number before the first '.', rest>>
RECURSIVE BuildFromImageinfo(_)
BuildFromImageinfo(rows) ==
    IF rows = <<>> THEN 0
    ELSE IF Head(rows)[1] = "NT Build" THEN Head(rows)[2][1]
    ELSE BuildFromImageinfo(Tail(rows))

\* read_modulelist: the rows with a dll_path of more than one character; a
\* row is <<dll_path, base, size>> and path 0 stands for a path that is
\* missing or at most one character long
RECURSIVE read_modulelist(_)
read_modulelist(rows) ==
    IF rows = <<>> THEN <<>>
    ELSE IF Head(rows)[1] # 0
         THEN <<Head(rows)>> \o read_modulelist(Tail(rows))
         ELSE read_modulelist(Tail(rows))

\* lines 279-295: build number, system info, module list, then the call of
\* read_memory_fast
Gather ==
    /\ pc = "gather"
    /\ build' = IF "build" \in DOMAIN config THEN config.build
                ELSE BuildFromImageinfo(imageinfo)
    /\ module_list_arg' = read_modulelist(dlls[lsass_pid])
    /\ pc' = "read_memory_fast"
    /\ UNCHANGED <<status, vmem, fs, opened, written, config, session,
                   lsass_pid, credential_guard, minidump>>
    /\ UNCHANGED <<waitVars, captureVars, cgVars, memVars>>

\* lines 297-303: the four parts are set and the minidump is built
Assemble ==
    /\ pc = "assemble"
    /\ minidump' = [minidump EXCEPT
                        !.systeminfo = [BuildNumber |-> build],
                        !.memoryinfo_list = memoryinfo_list,
                        !.memory64 = memory64_list,
                        !.module_list = module_list_arg]
    /\ pc' = "persist_mkdir"
    /\ UNCHANGED <<status, vmem, fs, opened, written, config, session, lsass_pid,
                   credential_guard, build, module_list_arg>>
    /\ UNCHANGED <<waitVars, captureVars, cgVars, memVars>>

\* lines 305-306: output/ is made if missing
PersistMkdir ==
    /\ pc = "persist_mkdir"
    /\ fs' = fs \cup {OutputDir}
    /\ pc' = "persist_open"
    /\ UNCHANGED <<status, vmem, opened, written, config, session, lsass_pid,
                   credential_guard, build, module_list_arg, minidump>>
    /\ UNCHANGED <<waitVars, captureVars, cgVars, memVars>>

\* lines 308-309: open(filepath, 'wb') creates the empty dump file
PersistOpen ==
    /\ pc = "persist_open"
    /\ IF OutputDir \in fs
       THEN /\ fs' = fs \cup {DumpFile}
            /\ pc' = "persist_write"
            /\ UNCHANGED status
       ELSE /\ LeavesDump("raised", "FileNotFoundError")
            /\ UNCHANGED fs
    /\ UNCHANGED <<vmem, opened, written, config, session, lsass_pid,
                   credential_guard, build, module_list_arg, minidump>>
    /\ UNCHANGED <<waitVars, captureVars, cgVars, memVars>>

\* lines 310-312: f.write(data); _dump returns and the run leaves dump
PersistWrite ==
    /\ pc = "persist_write"
    /\ written' = written \cup {DumpFile}
    /\ LeavesDump("done", "exit0")
    /\ UNCHANGED <<vmem, fs, opened, config, session, lsass_pid,
                   credential_guard, build, module_list_arg, minidump>>
    /\ UNCHANGED <<waitVars, captureVars, cgVars, memVars>>

\* the captures of the whole-program model: a process with an odd pid has a
\* module with an unmapped page, one with an even pid is mapped throughout
CaptureRuns(p) == IF p % 2 = 1 THEN << <<2, 3>>, <<0, 1>> >> ELSE << <<0, 3>> >>
CaptureDlls(p) == << <<2, 0, 3>>, <<0, 3, 1>>, <<1, 1, 1>> >>

\* dump(label, vmem) called with any arguments on any file system
Init ==
    /\ pc = "dump"
    /\ status = "running"
    /\ vmem \in {None, <<"", "">>, <<"capture", ".vmem">>, <<"capture", ".raw">>}
    /\ fs \in SUBSET {CONFIG_FILE, RemoteImage, <<"capture", ".vmem">>, OutputDir}
    /\ opened = {} /\ written = {}
    /\ config = [image |-> None]
    /\ session = FALSE /\ lsass_pid = 0 /\ credential_guard = FALSE
    /\ build = 0 /\ minidump = Minidump /\ module_list_arg = <<>>
    /\ procs = <<>>
    /\ dlls = [p \in 1..MaxProcs |-> CaptureDlls(p)]
    /\ runs = [p \in 1..MaxProcs |-> CaptureRuns(p)]
    /\ phys_map = << <<0, 2 * PAGE_SIZE, 2>> >>
    /\ MmPfnDatabase = << <<1, 1, 8>>, <<2, 1, 0>> >>
    /\ imageinfo \in {<<>>, << <<"Kernel DTB", <<1>> >>,
                               <<"NT Build", <<17763, "rs5_release">> >> >>}
    /\ WaitIdle /\ CgIdle /\ MemIdle

Next ==
    \/ DumpStart \/ LoadConfig \/ OpenSession \/ LocateTarget
    \/ DetectIsolation \/ Gather
    \/ Assemble \/ PersistMkdir \/ PersistOpen \/ PersistWrite
    \/ EnsureCheck \/ EnsureSleep \/ CompanionWrites \/ EnsureRaise \/ EnsureReturn
    \/ CgLayout \/ CgScanPage \/ CgReadSecureWorld
    \/ CgOpen \/ CgWrite \/ CgReturn
    \/ RmfReconcile \/ RmfRead \/ RmfReturn
    \/ Interrupt

Spec == Init /\ [][Next]_vars

(***************************************************************************)
(* Properties of the orchestrator.                                          *)
(***************************************************************************)
\* C6 as stated: when no process of the listing is named lsass.exe (in any
\* case), the run is at LocateTarget or has exited with status 1, and neither
\* output file was written.
C6_NoTargetExitsNonZero ==
    (session /\ RowsNamed(procs, lsass_exe) = <<>>) =>
        /\ pc \in {"locate_target", "exited"}
        /\ (pc = "exited" => status = "exit1")
        /\ written = {}
        /\ DumpFile \notin fs
        /\ SecureWorldFile \notin fs

\* C6 as amended: when no process of the listing is named lsass.exe, the run
\* never passes LocateTarget: it exits with status 1, or a KeyboardInterrupt
\* ends it, with status 0 when dump catches it and as an uncaught
\* KeyboardInterrupt when it is raised in dump's except clause; neither
\* output file was written.
C6_NoTargetNeverPassesLocate ==
    (session /\ RowsNamed(procs, lsass_exe) = <<>>) =>
        /\ pc \in {"locate_target", "exited", "done", "interrupted"}
        /\ (pc = "locate_target" => status = "running")
        /\ (pc = "exited" => status = "exit1")
        /\ (pc = "done" => status = "exit0")
        /\ (pc = "interrupted" => status = "KeyboardInterrupt")
        /\ written = {}
        /\ DumpFile \notin fs
        /\ SecureWorldFile \notin fs

\* the run has exited on a listing whose only lsass-like process is lsass_exe
C6_Witness ==
    /\ pc = "exited"
    /\ status = "exit1"
    /\ session
    /\ \E i \in DOMAIN procs : procs[i][1] = lsass_like
    /\ \E i \in DOMAIN procs : procs[i][1] = lsaiso_exe

\* C7 as stated: with a local image whose extension is not .vmem the run is
\* at its start or has exited with status 1; no wait was started, no file
\* opened and no session opened.
C7_BadExtensionExitsFirst ==
    (Truthy(vmem) /\ vmem[2] # ".vmem") =>
        /\ pc \in {"dump", "exited"}
        /\ (pc = "exited" => status = "exit1")
        /\ checks = 0 /\ sleeps = 0 /\ waitPath = None /\ waited = {}
        /\ opened = {}
        /\ ~session

\* C7 as amended: with a local image whose extension is not .vmem the run
\* exits with status 1 at the extension test, or a KeyboardInterrupt ends it:
\* with status 0 when dump catches it, as an uncaught KeyboardInterrupt when
\* it is raised at dump's entry or in dump's except clause; in every case no
\* wait was started, no file opened and no session opened.
C7_BadExtensionNeverWaits ==
    (Truthy(vmem) /\ vmem[2] # ".vmem") =>
        /\ pc \in {"dump", "exited", "done", "interrupted"}
        /\ (pc = "dump" => status = "running")
        /\ (pc = "exited" => status = "exit1")
        /\ (pc = "done" => status = "exit0")
        /\ (pc = "interrupted" => status = "KeyboardInterrupt")
        /\ checks = 0 /\ sleeps = 0 /\ waitPath = None /\ waited = {}
        /\ opened = {}
        /\ ~session

\* the run has exited on capture.raw
C7_Witness ==
    /\ pc = "exited"
    /\ status = "exit1"
    /\ vmem = <<"capture", ".raw">>

\* C8: no write of an output file fails for want of the output directory,
\* and the directory exists whenever an output file was written.
C8_OutputDirAtEveryWrite ==
    /\ status # "FileNotFoundError"
    /\ (written # {} => OutputDir \in fs)

\* the positions inside ensureFileExist
InWait == pc \in {"ensureFileExist", "ensure_sleep", "ensure_found"}

\* C9 as stated: a wait makes at most 120 checks, sleeps once after each
\* failed check, ends by returning at the first check that finds the file or
\* by raising, raises exactly when all 120 checks failed, and a file is
\* opened only after its wait returned.
C9_BoundedWait ==
    /\ checks <= 120 /\ sleeps <= 120
    /\ (pc = "ensureFileExist" => checks = sleeps)
    /\ (pc = "ensure_sleep" => checks = sleeps /\ x < 120)
    /\ (pc = "ensure_found" => checks = sleeps + 1 /\ waitPath \in fs)
    /\ (waitPath # None => InWait \/ status = "Exception: File does not exist")
    /\ (status = "Exception: File does not exist"
            => checks = 120 /\ sleeps = 120 /\ waitPath \notin opened)
    /\ (sleeps = 120 =>
            \/ pc \in {"ensureFileExist", "ensure_sleep"}
            \/ status = "Exception: File does not exist")
    /\ opened \subseteq waited
    /\ (session => config.image \in waited)

\* C9 as amended: a wait makes at most 120 checks, sleeps once after each
\* failed check, and ends in one of three ways: it returns at the first
\* check that finds the file, it raises after 120 failed checks and only
\* then, or a KeyboardInterrupt ends the run (with status 0 when dump catches
\* it, as an uncaught KeyboardInterrupt otherwise); a file is opened only
\* after its wait returned.
C9_BoundedWaitOrInterrupt ==
    /\ checks <= 120 /\ sleeps <= 120 /\ x <= 120
    /\ (pc = "ensureFileExist" => checks = sleeps)
    /\ (pc = "ensure_sleep" => checks = sleeps /\ x < 120)
    /\ (pc = "ensure_found" => checks = sleeps + 1 /\ waitPath \in fs)
    /\ (waitPath # None =>
            \/ InWait
            \/ status = "Exception: File does not exist"
            \/ (pc = "done" /\ status = "exit0" /\ waitPath \notin opened)
            \/ (pc = "interrupted" /\ status = "KeyboardInterrupt"
                    /\ waitPath \notin opened))
    /\ (status = "Exception: File does not exist"
            => checks = 120 /\ sleeps = 120 /\ waitPath \notin opened)
    /\ (sleeps = 120 =>
            \/ pc \in {"ensureFileExist", "ensure_sleep"}
            \/ status = "Exception: File does not exist"
            \/ (pc = "done" /\ status = "exit0")
            \/ (pc = "interrupted" /\ status = "KeyboardInterrupt"))
    /\ opened \subseteq waited
    /\ (session => config.image \in waited)

\* the wait for config.json returned, the wait for the image ran out
C9_Witness ==
    /\ status = "Exception: File does not exist"
    /\ CONFIG_FILE \in opened
    /\ waitPath = RemoteImage
    /\ checks = 120

\* C10: the process whose address space read_memory_fast reads is the
\* process found in LocateTarget.
C10_SameProcessRead ==
    task # 0 => task = lsass_pid

====
